---- MODULE Spec2Model ----
(***************************************************************************)
(* Student grades manager: the command-line program (app.py) and the      *)
(* dashboard (app1.py) over the shared JSON backing file grades.json.      *)
(*                                                                         *)
(* Text is modelled as sequences of one-character strings, so that the     *)
(* conversions of the code (str, int, float, strip, lower, the JSON        *)
(* integer syntax) are computed and not assumed.  The input alphabet is    *)
(* blank, minus, the decimal digits and a few letters; on that alphabet    *)
(* float(s) of the code accepts exactly the signed integer literals.       *)
(* A python dict is a sequence of records in insertion order.              *)
(***************************************************************************)
EXTENDS Integers, Sequences, FiniteSets, TLC

VARIABLES
    variant,  \* "cli" (app.py) or "web" (app1.py): which program the session runs
    pc,       \* "running": in the menu loop / page loop; "done": the process has exited
    grades,   \* the in-memory dict roll -> marks, in insertion order
    file,     \* the backing file grades.json
    out,      \* what the last operation reported (messages, table, report)
    failures  \* how many saves have failed so far

vars == <<variant, pc, grades, file, out, failures>>

NUM_SUBJECTS == 5

(* ------------------------------ text ---------------------------------- *)

DigitChars == <<"0", "1", "2", "3", "4", "5", "6", "7", "8", "9">>

DigitSet == {"0", "1", "2", "3", "4", "5", "6", "7", "8", "9"}

IsDigit(c) == c \in DigitSet

DigitVal(c) ==
    CASE c = "0" -> 0 [] c = "1" -> 1 [] c = "2" -> 2 [] c = "3" -> 3 [] c = "4" -> 4
      [] c = "5" -> 5 [] c = "6" -> 6 [] c = "7" -> 7 [] c = "8" -> 8 [] c = "9" -> 9

AllDigits(s) == \A i \in 1..Len(s) : IsDigit(s[i])

RECURSIVE DigitsToNat(_)
DigitsToNat(s) ==
    IF s = <<>> THEN 0
    ELSE 10 * DigitsToNat(SubSeq(s, 1, Len(s) - 1)) + DigitVal(s[Len(s)])

RECURSIVE NatToStr(_)
NatToStr(n) ==
    IF n < 10 THEN <<DigitChars[n + 1]>>
    ELSE NatToStr(n \div 10) \o <<DigitChars[(n % 10) + 1]>>

\* the digits of k, without its sign
IntToStr_NoSign(k) == IF k < 0 THEN NatToStr(0 - k) ELSE NatToStr(k)

\* str(k) of a python int
IntToStr(k) == IF k < 0 THEN <<"-">> \o NatToStr(0 - k) ELSE NatToStr(k)

RECURSIVE LStrip(_)
LStrip(s) == IF s # <<>> /\ Head(s) = " " THEN LStrip(Tail(s)) ELSE s

RECURSIVE RStrip(_)
RStrip(s) ==
    IF s # <<>> /\ s[Len(s)] = " " THEN RStrip(SubSeq(s, 1, Len(s) - 1)) ELSE s

\* str.strip()
Strip(s) == RStrip(LStrip(s))

LowerChar(c) == IF c = "Y" THEN "y" ELSE IF c = "N" THEN "n" ELSE c

\* str.lower()
Lower(s) == [i \in 1..Len(s) |-> LowerChar(s[i])]

\* int(s) of a python str: blanks around an optionally signed run of digits,
\* ValueError otherwise
ParseInt(s) ==
    LET t == Strip(s)
        neg == t # <<>> /\ Head(t) = "-"
        body == IF neg THEN Tail(t) ELSE t
    IN  IF body # <<>> /\ AllDigits(body)
        THEN [ok |-> TRUE, val |-> IF neg THEN 0 - DigitsToNat(body) ELSE DigitsToNat(body)]
        ELSE [ok |-> FALSE, val |-> 0]

\* float(s) of a python str, on the input alphabet
ParseFloat(s) == ParseInt(s)

\* an integer of a JSON document: -?(0|[1-9][0-9]*), nothing around it
ParseJsonInt(s) ==
    LET neg == s # <<>> /\ Head(s) = "-"
        body == IF neg THEN Tail(s) ELSE s
    IN  IF body # <<>> /\ AllDigits(body) /\ (Len(body) = 1 \/ Head(body) # "0")
        THEN [ok |-> TRUE, val |-> IF neg THEN 0 - DigitsToNat(body) ELSE DigitsToNat(body)]
        ELSE [ok |-> FALSE, val |-> 0]

(* ------------------------------ dict ---------------------------------- *)

Keys(d) == {d[i].roll : i \in 1..Len(d)}

HasKey(d, k) == k \in Keys(d)

DictGet(d, k) == d[CHOOSE i \in 1..Len(d) : d[i].roll = k].marks

\* d[k] = v
DictSet(d, k, v) ==
    IF HasKey(d, k)
    THEN [i \in 1..Len(d) |-> IF d[i].roll = k THEN [roll |-> k, marks |-> v] ELSE d[i]]
    ELSE Append(d, [roll |-> k, marks |-> v])

\* d cut off at k
DictDel_UpTo(d, k) ==
    LET i == CHOOSE j \in 1..Len(d) : d[j].roll = k
    IN  SubSeq(d, 1, i - 1)

\* del d[k]
DictDel(d, k) ==
    LET i == CHOOSE j \in 1..Len(d) : d[j].roll = k
    IN  SubSeq(d, 1, i - 1) \o SubSeq(d, i + 1, Len(d))

RECURSIVE InsertSorted(_, _)
InsertSorted(s, x) ==
    IF s = <<>> THEN <<x>>
    ELSE IF x <= Head(s) THEN <<x>> \o s
    ELSE <<Head(s)>> \o InsertSorted(Tail(s), x)

RECURSIVE SortInts(_)
SortInts(s) == IF s = <<>> THEN <<>> ELSE InsertSorted(SortInts(Tail(s)), Head(s))

KeyList(d) == [i \in 1..Len(d) |-> d[i].roll]

\* the keys as the dict iterates them
SortedKeys_Unsorted(d) == KeyList(d)

\* sorted(grades.keys())
SortedKeys(d) == SortInts(KeyList(d))

(* --------------------------- rationals -------------------------------- *)

RECURSIVE GCD(_, _)
GCD(a, b) == IF b = 0 THEN a ELSE GCD(b, a % b)

Abs(n) == IF n < 0 THEN 0 - n ELSE n

\* the number n/d (d > 0) in lowest terms; stands for the float quotient n / d
Quot(n, d) ==
    LET g == GCD(Abs(n), d)
    IN  IF n = 0 THEN [num |-> 0, den |-> 1] ELSE [num |-> n \div g, den |-> d \div g]

(* ------------------------ the backing file ---------------------------- *)

\* A file is [kind, data]: "absent"; "garbage" (bytes that are no JSON document,
\* such as the remains of a write that failed); "array" (a JSON document that is
\* no object); "object", whose data is the members in document order, each a
\* key string and a list of number tokens.
NoFile == [kind |-> "absent", data |-> <<>>]

Garbage == [kind |-> "garbage", data |-> <<>>]

\* json.load accepts the document: every number token is a JSON integer
JsonWellFormed(data) ==
    \A i \in 1..Len(data) :
        \A j \in 1..Len(data[i].marks) : ParseJsonInt(data[i].marks[j]).ok

\* the dict json.load builds from an object: a repeated key keeps its first
\* position and its last value
RECURSIVE JsonObject(_, _)
JsonObject(data, acc) ==
    IF data = <<>> THEN acc
    ELSE LET m == Head(data)
             v == [j \in 1..Len(m.marks) |-> ParseJsonInt(m.marks[j]).val]
             at == {i \in 1..Len(acc) : acc[i].key = m.key}
         IN  JsonObject(Tail(data),
                IF at = {} THEN Append(acc, [key |-> m.key, marks |-> v])
                ELSE [i \in 1..Len(acc) |->
                        IF i \in at THEN [key |-> m.key, marks |-> v] ELSE acc[i]])

\* {int(roll_str): marks_list for roll_str, marks_list in data.items()}
RECURSIVE IntKeyed(_, _)
IntKeyed(items, acc) ==
    IF items = <<>> THEN acc
    ELSE IntKeyed(Tail(items),
                  DictSet(acc, ParseInt(Head(items).key).val, Head(items).marks))

\* the same, leaving out the members whose key is no integer
RECURSIVE IntKeyedSkipping(_, _)
IntKeyedSkipping(items, acc) ==
    IF items = <<>> THEN acc
    ELSE IntKeyedSkipping(Tail(items),
            IF ParseInt(Head(items).key).ok
            THEN DictSet(acc, ParseInt(Head(items).key).val, Head(items).marks)
            ELSE acc)

\* a load that keeps the records it can read
load_grades_Partial(f) ==
    IF f.kind = "absent" THEN [grades |-> <<>>, result |-> "NoFile"]
    ELSE IF f.kind = "garbage" \/ ~JsonWellFormed(f.data)
    THEN [grades |-> <<>>, result |-> "JSONDecodeError"]
    ELSE IF f.kind = "array" THEN [grades |-> <<>>, result |-> "Exception"]
    ELSE [grades |-> IntKeyedSkipping(JsonObject(f.data, <<>>), <<>>), result |-> "Loaded"]

\* load_grades(): the store and what was reported
load_grades(f) ==
    IF f.kind = "absent" THEN [grades |-> <<>>, result |-> "NoFile"]
    ELSE IF f.kind = "garbage" \/ ~JsonWellFormed(f.data)
    THEN [grades |-> <<>>, result |-> "JSONDecodeError"]
    ELSE IF f.kind = "array" THEN [grades |-> <<>>, result |-> "Exception"]
    ELSE LET items == JsonObject(f.data, <<>>)
         IN  IF \E i \in 1..Len(items) : ~ParseInt(items[i].key).ok
             THEN [grades |-> <<>>, result |-> "Exception"]
             ELSE [grades |-> IntKeyed(items, <<>>), result |-> "Loaded"]

\* json.dump({str(k): v for k, v in grades.items()}, f)
JsonDump(g) ==
    [kind |-> "object",
     data |-> [i \in 1..Len(g) |->
                 [key |-> IntToStr(g[i].roll),
                  marks |-> [j \in 1..Len(g[i].marks) |-> IntToStr(g[i].marks[j])]]]]

\* How a save can end: "ok"; "open" (open(DATA_FILE, "w") raises, the file is
\* as it was); "write" (the file was truncated by open and the write raises).
SaveOutcomes == {"ok", "open", "write"}

\* save_grades(grades): the file afterwards and the message printed
save_grades(g, f, outcome) ==
    IF outcome = "ok" THEN [file |-> JsonDump(g), msg |-> "Saved"]
    ELSE IF outcome = "open" THEN [file |-> f, msg |-> "ErrorSaving"]
    ELSE [file |-> Garbage, msg |-> "ErrorSaving"]

(* --------------------------- input layer ------------------------------ *)

\* get_valid_roll(): reads lines until one is a roll number
RECURSIVE get_valid_roll(_)
get_valid_roll(lines) ==
    IF lines = <<>> THEN [done |-> FALSE, roll |-> 0, rest |-> <<>>]
    ELSE LET val == Strip(Head(lines))
         IN  IF val = <<>> THEN get_valid_roll(Tail(lines))
             ELSE IF ParseInt(val).ok
             THEN [done |-> TRUE, roll |-> ParseInt(val).val, rest |-> Tail(lines)]
             ELSE get_valid_roll(Tail(lines))

\* the loops of get_valid_marks(), with the marks read so far; a mark that is a
\* whole number is stored as int(m), and the input alphabet has no others
RECURSIVE ReadMarks(_, _)
ReadMarks(lines, marks) ==
    IF Len(marks) = NUM_SUBJECTS THEN [done |-> TRUE, marks |-> marks, rest |-> lines]
    ELSE IF lines = <<>> THEN [done |-> FALSE, marks |-> marks, rest |-> <<>>]
    ELSE LET s == Strip(Head(lines))
             m == ParseFloat(s)
         IN  IF s = <<>> THEN ReadMarks(Tail(lines), marks)
             ELSE IF ~m.ok THEN ReadMarks(Tail(lines), marks)
             ELSE IF m.val < 0 \/ m.val > 100 THEN ReadMarks(Tail(lines), marks)
             ELSE ReadMarks(Tail(lines), Append(marks, m.val))

get_valid_marks(lines) == ReadMarks(lines, <<>>)

(* ----------------------------- statistics ----------------------------- *)

RECURSIVE SumSeq(_)
SumSeq(s) == IF s = <<>> THEN 0 ELSE Head(s) + SumSeq(Tail(s))

\* the statistics with the first mark left out of the sum
calculate_stats_SkipFirst(marks) ==
    LET total == IF marks = <<>> THEN 0 ELSE SumSeq(Tail(marks))
    IN  [total |-> total,
         avg |-> IF marks # <<>> THEN Quot(total, Len(marks)) ELSE Quot(0, 1)]

\* calculate_stats(marks)
calculate_stats(marks) ==
    LET total == SumSeq(marks)
    IN  [total |-> total,
         avg |-> IF marks # <<>> THEN Quot(total, Len(marks)) ELSE Quot(0, 1)]

\* one line of a table or report
Row(g, roll) ==
    LET marks == DictGet(g, roll)
        st == calculate_stats(marks)
    IN  [roll |-> roll, marks |-> marks, total |-> st.total, avg |-> st.avg]

\* the lines view_all_grades prints and export_report writes
Table(g) == LET ks == SortedKeys(g) IN [i \in 1..Len(ks) |-> Row(g, ks[i])]

\* grades_to_dataframe(grades): a row per item, then sort_values(by="Roll Number")
grades_to_dataframe(g) ==
    LET ks == SortInts(KeyList(g)) IN [i \in 1..Len(ks) |-> Row(g, ks[i])]

(* ------------------- the handlers of app.py (cli) --------------------- *)

\* What a handler did, given the lines typed at its prompts: done (it read
\* exactly these lines and returned), the store afterwards, the roll and marks
\* it read, the answer to the confirmation prompt, whether it went on to
\* save_grades, and the last message it printed (after the save, if any).
Handled(done, g, roll, marks, confirm, save, result) ==
    [done |-> done, grades |-> g, roll |-> roll, marks |-> marks,
     confirm |-> confirm, save |-> save, result |-> result]

\* an add that does not look for the roll first
add_grades_NoCheck(g, lines) ==
    LET r == get_valid_roll(lines)
        m == get_valid_marks(r.rest)
    IN  Handled(r.done /\ m.done /\ m.rest = <<>>, DictSet(g, r.roll, m.marks),
                r.roll, m.marks, <<>>, TRUE, "Success")

\* add_grades(grades)
add_grades(g, lines) ==
    LET r == get_valid_roll(lines)
        m == get_valid_marks(r.rest)
    IN  IF r.done /\ HasKey(g, r.roll)
        THEN Handled(r.rest = <<>>, g, r.roll, <<>>, <<>>, FALSE, "DuplicateRoll")
        ELSE Handled(r.done /\ m.done /\ m.rest = <<>>, DictSet(g, r.roll, m.marks),
                     r.roll, m.marks, <<>>, TRUE, "Success")

\* a delete that goes ahead whatever is answered
delete_grades_AnyAnswer(g, lines) ==
    LET r == get_valid_roll(lines)
    IN  IF r.done /\ HasKey(g, r.roll)
        THEN IF r.rest = <<>> THEN Handled(FALSE, g, r.roll, <<>>, <<>>, FALSE, "None")
             ELSE Handled(Len(r.rest) = 1, DictDel(g, r.roll), r.roll, <<>>,
                          Head(r.rest), TRUE, "Success")
        ELSE Handled(r.done /\ r.rest = <<>>, g, r.roll, <<>>, <<>>, FALSE, "RollNotFound")

\* delete_grades(grades)
delete_grades(g, lines) ==
    LET r == get_valid_roll(lines)
    IN  IF r.done /\ HasKey(g, r.roll)
        THEN IF r.rest = <<>> THEN Handled(FALSE, g, r.roll, <<>>, <<>>, FALSE, "None")
             ELSE IF Lower(Strip(Head(r.rest))) = <<"y">>
             THEN Handled(Len(r.rest) = 1, DictDel(g, r.roll), r.roll, <<>>,
                          Head(r.rest), TRUE, "Success")
             ELSE Handled(Len(r.rest) = 1, g, r.roll, <<>>,
                          Head(r.rest), FALSE, "Cancelled")
        ELSE Handled(r.done /\ r.rest = <<>>, g, r.roll, <<>>, <<>>, FALSE, "RollNotFound")

\* an update that does not look for the roll first
update_grades_NoCheck(g, lines) ==
    LET r == get_valid_roll(lines)
        m == get_valid_marks(r.rest)
    IN  Handled(r.done /\ m.done /\ m.rest = <<>>, DictSet(g, r.roll, m.marks),
                r.roll, m.marks, <<>>, TRUE, "Success")

\* update_grades(grades)
update_grades(g, lines) ==
    LET r == get_valid_roll(lines)
        m == get_valid_marks(r.rest)
    IN  IF r.done /\ ~HasKey(g, r.roll)
        THEN Handled(r.rest = <<>>, g, r.roll, <<>>, <<>>, FALSE, "RollNotFound")
        ELSE Handled(r.done /\ m.done /\ m.rest = <<>>, DictSet(g, r.roll, m.marks),
                     r.roll, m.marks, <<>>, TRUE, "Success")

\* view_all_grades(grades): the lines of the table
view_all_grades(g) == IF g = <<>> THEN <<>> ELSE Table(g)

\* search_by_roll(grades): the roll read, and the record shown if there is one
search_by_roll(g, lines) ==
    LET r == get_valid_roll(lines)
    IN  [done |-> r.done /\ r.rest = <<>>, roll |-> r.roll,
         found |-> HasKey(g, r.roll),
         shown |-> IF HasKey(g, r.roll) THEN <<Row(g, r.roll)>> ELSE <<>>]

\* export_report(grades): the record lines written to grades_report.txt when
\* the write succeeds
export_report(g) == IF g = <<>> THEN <<>> ELSE Table(g)

(* ------------------ the pages of app1.py (web) ------------------------ *)

\* add_record_page(), the form submitted with this roll and these marks
add_record_page(g, roll, marks) ==
    IF HasKey(g, roll)
    THEN Handled(TRUE, g, roll, marks, <<>>, FALSE, "DuplicateRoll")
    ELSE Handled(TRUE, DictSet(g, roll, marks), roll, marks, <<>>, TRUE, "Success")

\* update_record_page(), this roll selected and the form submitted with these
\* marks; the sliders cannot be built from a record that is short of
\* NUM_SUBJECTS marks or holds a mark outside 0..100
update_record_page(g, selected_roll, new_marks) ==
    LET current_marks == DictGet(g, selected_roll)
    IN  IF selected_roll = 0
        THEN Handled(TRUE, g, selected_roll, <<>>, <<>>, FALSE, "None")
        ELSE IF \/ Len(current_marks) < NUM_SUBJECTS
                \/ \E i \in 1..NUM_SUBJECTS : current_marks[i] \notin 0..100
        THEN Handled(TRUE, g, selected_roll, <<>>, <<>>, FALSE, "Exception")
        ELSE Handled(TRUE, DictSet(g, selected_roll, new_marks), selected_roll,
                     new_marks, <<>>, TRUE, "Success")

\* delete_record_page(), this roll selected and the confirm button pressed
delete_record_page(g, selected_roll) ==
    IF selected_roll = 0
    THEN Handled(TRUE, g, selected_roll, <<>>, <<>>, FALSE, "None")
    ELSE Handled(TRUE, DictDel(g, selected_roll), selected_roll, <<>>, <<>>,
                 TRUE, "Success")

\* search_record_page(), the search button pressed
search_record_page(g, search_roll) ==
    [done |-> TRUE, roll |-> search_roll, found |-> HasKey(g, search_roll),
     shown |-> IF HasKey(g, search_roll) THEN <<Row(g, search_roll)>> ELSE <<>>]

(* ------------------------------ inputs -------------------------------- *)

\* saves that may fail in one behaviour
MaxSaveFailures == 1

InsertAt(s, i, x) == SubSeq(s, 1, i - 1) \o <<x>> \o SubSeq(s, i, Len(s))

Member(key, marks) == [key |-> key, marks |-> marks]

Object(data) == [kind |-> "object", data |-> data]

ZeroTokens == [i \in 1..NUM_SUBJECTS |-> <<"0">>]

MixedTokens == << <<"8", "0">>, <<"9", "0">>, <<"7", "0">>, <<"6", "0">>, <<"1", "0", "0">> >>

\* what grades.json may hold when a session starts on a fresh machine or after
\* someone edited the file
InitFiles ==
    { NoFile, Garbage, [kind |-> "array", data |-> <<>>], Object(<<>>),
      Object(<<Member(<<"1", "0">>, MixedTokens), Member(<<"2">>, ZeroTokens)>>),
      Object(<<Member(<<"2">>, ZeroTokens), Member(<<"x">>, ZeroTokens)>>),
      Object(<<Member(<<"2">>, << <<"1", "0", "1">> >>), Member(<<"1", "0">>, <<>>)>>),
      Object(<<Member(<<"2">>, << <<"0", "8">> >>)>>),
      Object(<<Member(<<"2">>, ZeroTokens), Member(<<"0", "2">>, MixedTokens)>>) }

\* lines typed at the menu prompt
ChoiceLines ==
    { <<"1">>, <<"2">>, <<"3">>, <<"4">>, <<"5">>, <<"6">>, <<"7">>,
      <<" ", "4", " ">>, <<"8">>, <<"x">>, <<>> }

\* lines typed at a roll prompt, up to the one that is accepted: the roll alone,
\* or the roll after or within what get_valid_roll skips or strips
PlainRollScripts == { << <<"2">> >>, << <<"-", "1">> >> }

OtherRollScripts ==
    { << <<" ", "2", " ">> >>, << <<>>, <<"2">> >>, << <<"x">>, <<"-", "1">> >> }

RollScripts == PlainRollScripts \cup OtherRollScripts

\* lines typed at the marks prompts, up to the last one that is accepted
PlainMarkScripts == {ZeroTokens, MixedTokens}

OtherMarkScripts ==
    { InsertAt(ZeroTokens, 1, <<"-", "1">>), InsertAt(ZeroTokens, 3, <<>>),
      InsertAt(MixedTokens, 2, <<"x">>), InsertAt(MixedTokens, NUM_SUBJECTS, <<"1", "0", "1">>) }

ConfirmLines == { <<"y">>, <<"Y">>, <<" ", "y", " ">>, <<"n">>, <<"y", "e", "s">> }

\* lines typed to add_grades or update_grades
AddScripts ==
    {r \o m : r \in PlainRollScripts, m \in PlainMarkScripts \cup {<<>>}}
        \cup {r \o m : r \in OtherRollScripts, m \in {ZeroTokens, <<>>}}
        \cup {<< <<"2">> >> \o m : m \in OtherMarkScripts}

\* lines typed to delete_grades
DeleteScripts ==
    {r \o c : r \in PlainRollScripts, c \in {<<>>} \cup {<<a>> : a \in ConfirmLines}}
        \cup {r \o c : r \in OtherRollScripts, c \in {<<>>, << <<"y">> >>}}

\* number_input(min_value=1, step=1)
WebRolls == {2, 10}

\* NUM_SUBJECTS widgets, each with min_value=0, max_value=100, step=1
WebMarks == { [i \in 1..NUM_SUBJECTS |-> 0], <<80, 90, 70, 60, 100>> }

(* ------------------------------ actions ------------------------------- *)

Report(op, roll, marks, confirm, result, save, listing) ==
    [op |-> op, roll |-> roll, marks |-> marks, confirm |-> confirm,
     result |-> result, save |-> save, listing |-> listing]

\* main_menu() up to its loop, streamlit_app() up to its pages:
\* grades = load_grades()
Init ==
    /\ variant \in {"cli", "web"}
    /\ pc = "running"
    /\ file \in InitFiles
    /\ grades = load_grades(file).grades
    /\ out = Report("load", 0, <<>>, <<>>, load_grades(file).result, "None", <<>>)
    /\ failures = 0

\* the end of a handler that changes the store: save_grades and the last message
Apply(op, h) ==
    /\ h.done
    /\ grades' = h.grades
    /\ IF h.save
       THEN \E o \in SaveOutcomes :
               /\ o # "ok" => failures < MaxSaveFailures
               /\ failures' = IF o = "ok" THEN failures ELSE failures + 1
               /\ \E s \in {save_grades(h.grades, file, o)} :
                     /\ file' = s.file
                     /\ out' = Report(op, h.roll, h.marks, h.confirm, h.result, s.msg, <<>>)
       ELSE /\ UNCHANGED <<file, failures>>
            /\ out' = Report(op, h.roll, h.marks, h.confirm, h.result, "None", <<>>)
    /\ UNCHANGED <<variant, pc>>

Chosen(c) == pc = "running" /\ variant = "cli" /\ \E l \in ChoiceLines : Strip(l) = c

CliAdd ==
    /\ Chosen(<<"1">>)
    /\ \E lines \in AddScripts : \E h \in {add_grades(grades, lines)} : Apply("add", h)

CliDelete ==
    /\ Chosen(<<"2">>)
    /\ \E lines \in DeleteScripts : \E h \in {delete_grades(grades, lines)} : Apply("delete", h)

CliUpdate ==
    /\ Chosen(<<"3">>)
    /\ \E lines \in AddScripts : \E h \in {update_grades(grades, lines)} : Apply("update", h)

CliView ==
    /\ Chosen(<<"4">>)
    /\ out' = Report("view", 0, <<>>, <<>>, "Shown", "None", view_all_grades(grades))
    /\ UNCHANGED <<variant, pc, grades, file, failures>>

CliSearch ==
    /\ Chosen(<<"5">>)
    /\ \E lines \in RollScripts :
          LET s == search_by_roll(grades, lines)
          IN  /\ s.done
              /\ out' = Report("search", s.roll, <<>>, <<>>,
                               IF s.found THEN "Found" ELSE "RollNotFound", "None", s.shown)
    /\ UNCHANGED <<variant, pc, grades, file, failures>>

\* export_report writes grades_report.txt, or reports that it could not
CliExport ==
    /\ Chosen(<<"6">>)
    /\ \/ out' = Report("export", 0, <<>>, <<>>, "Success", "None", export_report(grades))
       \/ out' = Report("export", 0, <<>>, <<>>, "ErrorExporting", "None", <<>>)
    /\ UNCHANGED <<variant, pc, grades, file, failures>>

CliExit ==
    /\ Chosen(<<"7">>)
    /\ pc' = "done"
    /\ out' = Report("exit", 0, <<>>, <<>>, "Goodbye", "None", <<>>)
    /\ UNCHANGED <<variant, grades, file, failures>>

CliInvalid ==
    /\ pc = "running" /\ variant = "cli"
    /\ \E l \in ChoiceLines :
          Strip(l) \notin {<<"1">>, <<"2">>, <<"3">>, <<"4">>, <<"5">>, <<"6">>, <<"7">>}
    /\ out' = Report("invalid", 0, <<>>, <<>>, "InvalidChoice", "None", <<>>)
    /\ UNCHANGED <<variant, pc, grades, file, failures>>

\* the program is run again: main_menu() loads the file into a new store
CliStart ==
    /\ pc = "done" /\ variant = "cli"
    /\ pc' = "running"
    /\ grades' = load_grades(file).grades
    /\ out' = Report("load", 0, <<>>, <<>>, load_grades(file).result, "None", <<>>)
    /\ UNCHANGED <<variant, file, failures>>

WebAdd ==
    /\ pc = "running" /\ variant = "web"
    /\ \E roll \in WebRolls, marks \in WebMarks :
          \E h \in {add_record_page(grades, roll, marks)} : Apply("add", h)

WebUpdate ==
    /\ pc = "running" /\ variant = "web"
    /\ \E roll \in Keys(grades), marks \in WebMarks :
          \E h \in {update_record_page(grades, roll, marks)} : Apply("update", h)

WebDelete ==
    /\ pc = "running" /\ variant = "web"
    /\ \E roll \in Keys(grades) :
          \E h \in {delete_record_page(grades, roll)} : Apply("delete", h)

\* view_all_records_page() and the export button both show grades_to_dataframe
WebView ==
    /\ pc = "running" /\ variant = "web"
    /\ \E op \in {"view", "export"} :
          out' = Report(op, 0, <<>>, <<>>, "Shown", "None", grades_to_dataframe(grades))
    /\ UNCHANGED <<variant, pc, grades, file, failures>>

WebSearch ==
    /\ pc = "running" /\ variant = "web"
    /\ \E roll \in WebRolls :
          LET s == search_record_page(grades, roll)
          IN  out' = Report("search", s.roll, <<>>, <<>>,
                            IF s.found THEN "Found" ELSE "RollNotFound", "None", s.shown)
    /\ UNCHANGED <<variant, pc, grades, file, failures>>

Next ==
    \/ CliAdd \/ CliDelete \/ CliUpdate \/ CliView \/ CliSearch \/ CliExport
    \/ CliExit \/ CliInvalid \/ CliStart
    \/ WebAdd \/ WebUpdate \/ WebDelete \/ WebView \/ WebSearch

Spec == Init /\ [][Next]_vars

(* ------------------------------ claims -------------------------------- *)

Mutations == {"add", "update", "delete"}

NoDuplicateRolls(d) == \A i, j \in 1..Len(d) : d[i].roll = d[j].roll => i = j

\* every roll other than r is in both stores or in neither, with the same marks
OthersKept(g, h, r) ==
    \A k \in (Keys(g) \cup Keys(h)) \ {r} :
        HasKey(g, k) /\ HasKey(h, k) /\ DictGet(g, k) = DictGet(h, k)

\* C1: an add for a roll that is already in the store is rejected as a
\* duplicate and leaves the store and the backing file exactly as they were,
\* and no reachable store holds two records for one roll.
C1_Uniqueness ==
    /\ [][(out'.op = "add" /\ HasKey(grades, out'.roll))
            => (out'.result = "DuplicateRoll" /\ grades' = grades /\ file' = file)]_vars
    /\ [](NoDuplicateRolls(grades))

C1_Witness ==
    /\ out.op = "add" /\ out.result = "DuplicateRoll"
    /\ HasKey(grades, out.roll) /\ Len(grades) >= 2

\* C2: an update or a delete for a roll that is not in the store is rejected
\* as not found and leaves the store and the backing file as they were; an
\* update never creates a record.
C2_NotFound ==
    [][(out'.op \in {"update", "delete"} /\ ~HasKey(grades, out'.roll))
         => (out'.result = "RollNotFound" /\ grades' = grades /\ file' = file)]_vars

C2_Witness ==
    /\ out.op = "update" /\ out.result = "RollNotFound"
    /\ ~HasKey(grades, out.roll) /\ grades # <<>>

\* C3: whenever an add, an update or a confirmed delete has reported success,
\* the backing file was rewritten and holds exactly the in-memory store; a
\* save that failed is not followed by a report of success.
C3_AllOrNothing ==
    (out.op \in Mutations /\ out.result = "Success")
        => (out.save = "Saved" /\ file = JsonDump(grades))

\* C4: saving a store and loading the file again gives the same rolls in the
\* same order, each with the same marks in the same order: for every reachable
\* store, and for the file every successful save has actually written.
C4_RoundTrip ==
    /\ load_grades(save_grades(grades, file, "ok").file).grades = grades
    /\ out.save = "Saved" => load_grades(file) = [grades |-> grades, result |-> "Loaded"]

C4_Witness ==
    /\ out.save = "Saved" /\ Len(grades) = 3
    /\ \E i \in 1..Len(grades) : grades[i].roll < 0
    /\ \E i \in 1..Len(grades) : grades[i].roll >= 10

\* C5: every record of the store has exactly NUM_SUBJECTS marks, each of them
\* in 0..100, in every reachable state: after load() and after any sequence of
\* add, update and delete.
C5_WellFormed ==
    \A i \in 1..Len(grades) :
        /\ Len(grades[i].marks) = NUM_SUBJECTS
        /\ \A j \in 1..Len(grades[i].marks) : grades[i].marks[j] \in 0..100

\* a file json.load rejects, or one whose document is no object of integer keys
Unparsable(f) ==
    \/ f.kind \in {"garbage", "array"}
    \/ /\ f.kind = "object"
       /\ \E i \in 1..Len(f.data) :
             \/ ~ParseInt(f.data[i].key).ok
             \/ \E j \in 1..Len(f.data[i].marks) : ~ParseJsonInt(f.data[i].marks[j]).ok

\* C6: load() of an absent file gives an empty store; load() of a corrupt or
\* unparsable file gives an empty store and a warning, never a part of the
\* records, and the session goes on.
C6_LoadFailsSoft ==
    out.op = "load" =>
        /\ pc = "running"
        /\ file.kind = "absent" => (grades = <<>> /\ out.result = "NoFile")
        /\ Unparsable(file) =>
              (grades = <<>> /\ out.result \in {"JSONDecodeError", "Exception"})

C6_Witness ==
    /\ out.op = "load" /\ out.result = "Exception" /\ grades = <<>>
    /\ file.kind = "object"
    /\ \E i \in 1..Len(file.data) : ParseInt(file.data[i].key).ok
    /\ \E i \in 1..Len(file.data) : ~ParseInt(file.data[i].key).ok

\* C7: whatever the order in which the rolls were inserted, view-all and a
\* completed export list every record exactly once, in strictly ascending order
\* of roll.
C7_SortOrder ==
    (out.op \in {"view", "export"} /\ out.result # "ErrorExporting") =>
        /\ Len(out.listing) = Len(grades)
        /\ {out.listing[i].roll : i \in 1..Len(out.listing)} = Keys(grades)
        /\ \A i, j \in 1..Len(out.listing) :
              i < j => out.listing[i].roll < out.listing[j].roll

C7_Witness ==
    /\ out.op = "view" /\ variant = "cli" /\ Len(grades) = 3
    /\ grades[1].roll > grades[2].roll /\ grades[2].roll > grades[3].roll
    /\ Len(out.listing) = 3

RECURSIVE SumUpTo(_, _)
SumUpTo(s, n) == IF n = 0 THEN 0 ELSE SumUpTo(s, n - 1) + s[n]

C9_Frame ==
    [][LET r == out'.roll
           done == out'.result = "Success"
       IN  /\ (out'.op = "add" /\ done) =>
                 /\ ~HasKey(grades, r)
                 /\ Keys(grades') = Keys(grades) \cup {r}
                 /\ DictGet(grades', r) = out'.marks
                 /\ OthersKept(grades, grades', r)
           /\ (out'.op = "update" /\ done) =>
                 /\ HasKey(grades, r)
                 /\ Keys(grades') = Keys(grades)
                 /\ DictGet(grades', r) = out'.marks
                 /\ OthersKept(grades, grades', r)
           /\ (out'.op = "delete" /\ done) =>
                 /\ HasKey(grades, r)
                 /\ Keys(grades') = Keys(grades) \ {r}
                 /\ OthersKept(grades, grades', r)
                 /\ delete_grades(grades', <<IntToStr(r)>>).result = "RollNotFound"
      ]_vars

C9_Witness ==
    /\ out.op = "delete" /\ out.result = "Success"
    /\ ~HasKey(grades, out.roll) /\ Len(grades) = 2

\* a step of a command-line session, after its start, that changes the store or
\* the backing file
CliWrite == variant = "cli" /\ out'.op # "load" /\ (grades' # grades \/ file' # file)

\* C10 as stated: in a command-line session the store and the backing file
\* change only in an add of a new roll, an update of an existing roll, or a
\* delete of an existing roll whose confirmation was 'y'.
C10_OnlyAppliedWrite_Literal ==
    [][CliWrite =>
         \/ out'.op = "add" /\ ~HasKey(grades, out'.roll)
         \/ out'.op = "update" /\ HasKey(grades, out'.roll)
         \/ out'.op = "delete" /\ HasKey(grades, out'.roll) /\ out'.confirm = <<"y">>
      ]_vars

\* C10 as amended: in a command-line session the store and the backing file
\* change only in an add of a new roll, an update of an existing roll, or a
\* delete of an existing roll whose confirmation, with the blanks around it
\* removed and in lower case, was 'y'.
C10_OnlyAppliedWrite ==
    [][CliWrite =>
         \/ out'.op = "add" /\ ~HasKey(grades, out'.roll)
         \/ out'.op = "update" /\ HasKey(grades, out'.roll)
         \/ /\ out'.op = "delete" /\ HasKey(grades, out'.roll)
            /\ Lower(Strip(out'.confirm)) = <<"y">>
      ]_vars

C10_Witness ==
    /\ variant = "cli" /\ out.op = "delete" /\ out.result = "Cancelled"
    /\ out.confirm = <<"y", "e", "s">> /\ HasKey(grades, out.roll)
    /\ file = JsonDump(grades)

====
